---- MODULE Spec2Model ----
(***************************************************************************)
(* Tic-tac-toe with "infinite play": the game state and click handling of  *)
(* game.js (src/unnamed/part_000) and the move selection of ai.js.         *)
(***************************************************************************)
EXTENDS Integers, Sequences, FiniteSets, TLC

VARIABLES
    gameState,   \* the gameState object of game.js
    timers,      \* number of pending setTimeout AI callbacks
    oldest,      \* cells currently carrying the 'oldest' CSS class
    movesMade,   \* history variable: moves applied since the last reset
    call         \* history variable: the last direct call made on the ai object

vars == <<gameState, timers, oldest, movesMade, call>>

----------------------------------------------------------------------------
(* Bounds *)

\* scores are counted up to MaxScore per mark
MaxScore == 1

\* clicks arrive on the cells 0..MaxClickIndex (and on two indices off the board)
MaxClickIndex == 6

\* the look-ahead is followed from boards with at most MaxLookAhead Empty cells
MaxLookAhead == 4

----------------------------------------------------------------------------
(* Values *)

Cells == 0..8

EmptyBoard == [i \in Cells |-> ""]

Infinity == 1000

undefined == 0 - 2

aiPlayer == "O"

humanPlayer == "X"

maxMoves == 9

winPatterns ==
    << <<0, 1, 2>>, <<3, 4, 5>>, <<6, 7, 8>>,
       <<0, 3, 6>>, <<1, 4, 7>>, <<2, 5, 8>>,
       <<0, 4, 8>>, <<2, 4, 6>> >>

Max(a, b) == IF a >= b THEN a ELSE b

Min(a, b) == IF a <= b THEN a ELSE b

\* board[index] for any index: outside 0..8 the array holds nothing
CellAt(board, index) == IF index \in Cells THEN board[index] ELSE "undefined"

----------------------------------------------------------------------------
(* ai.js *)

\* the pattern test without its comparison of the third cell
patternFilledTwoCells(board, k) ==
    LET a == winPatterns[k][1]
        b == winPatterns[k][2]
    IN board[a] # "" /\ board[a] = board[b]

\* the test of the pattern loop: board[a] && board[a] === board[b] && ...
patternFilled(board, k) ==
    LET a == winPatterns[k][1]
        b == winPatterns[k][2]
        c == winPatterns[k][3]
    IN board[a] # "" /\ board[a] = board[b] /\ board[a] = board[c]

\* the pattern loop from pattern k on: the first filled pattern, 0 if none
RECURSIVE patternLoop(_, _)
patternLoop(board, k) ==
    IF k > Len(winPatterns) THEN 0
    ELSE IF patternFilled(board, k) THEN k
    ELSE patternLoop(board, k + 1)

checkWinner(board) ==
    LET k == patternLoop(board, 1)
    IN IF k # 0 THEN board[winPatterns[k][1]]
       ELSE IF \A i \in Cells : board[i] # "" THEN "draw"
       ELSE "null"

\* the terminal scores without the depth: every win 10, every loss -10
terminalScoreNoDepth(result, depth) ==
    IF result = aiPlayer THEN 10
    ELSE IF result = humanPlayer THEN 0 - 10
    ELSE 0

terminalScore(result, depth) ==
    IF result = aiPlayer THEN 10 - depth
    ELSE IF result = humanPlayer THEN depth - 10
    ELSE 0

\* minimax and its two loops return the score together with the board as the
\* call leaves it: the array is shared and mutated in place.
RECURSIVE minimax(_, _, _, _, _)
RECURSIVE maxLoop(_, _, _, _, _, _)
RECURSIVE minLoop(_, _, _, _, _, _)

\* the maximizing loop body leaving the loop on a cut-off before the undo
maxStepBreakBeforeUndo(board, depth, i, alpha, beta, maxScore, r) ==
    LET undone == [r.board EXCEPT ![i] = ""]
        newMax == Max(r.score, maxScore)
        newAlpha == Max(alpha, r.score)
    IN IF beta <= newAlpha
       THEN [score |-> newMax, board |-> r.board]
       ELSE maxLoop(undone, depth, i + 1, newAlpha, beta, newMax)

maxStep(board, depth, i, alpha, beta, maxScore, r) ==
    LET undone == [r.board EXCEPT ![i] = ""]
        newMax == Max(r.score, maxScore)
        newAlpha == Max(alpha, r.score)
    IN IF beta <= newAlpha
       THEN [score |-> newMax, board |-> undone]
       ELSE maxLoop(undone, depth, i + 1, newAlpha, beta, newMax)

maxLoop(board, depth, i, alpha, beta, maxScore) ==
    IF i >= 9 THEN [score |-> maxScore, board |-> board]
    ELSE IF board[i] = ""
    THEN maxStep(board, depth, i, alpha, beta, maxScore,
                 minimax([board EXCEPT ![i] = aiPlayer], depth + 1, FALSE, alpha, beta))
    ELSE maxLoop(board, depth, i + 1, alpha, beta, maxScore)

\* the minimizing loop body leaving the loop on a cut-off before taking the
\* minimum with the last score
minStepBreakBeforeMin(board, depth, i, alpha, beta, minScore, r) ==
    LET undone == [r.board EXCEPT ![i] = ""]
        newMin == Min(r.score, minScore)
        newBeta == Min(beta, r.score)
    IN IF newBeta <= alpha
       THEN [score |-> minScore, board |-> undone]
       ELSE minLoop(undone, depth, i + 1, alpha, newBeta, newMin)

minStep(board, depth, i, alpha, beta, minScore, r) ==
    LET undone == [r.board EXCEPT ![i] = ""]
        newMin == Min(r.score, minScore)
        newBeta == Min(beta, r.score)
    IN IF newBeta <= alpha
       THEN [score |-> newMin, board |-> undone]
       ELSE minLoop(undone, depth, i + 1, alpha, newBeta, newMin)

minLoop(board, depth, i, alpha, beta, minScore) ==
    IF i >= 9 THEN [score |-> minScore, board |-> board]
    ELSE IF board[i] = ""
    THEN minStep(board, depth, i, alpha, beta, minScore,
                 minimax([board EXCEPT ![i] = humanPlayer], depth + 1, TRUE, alpha, beta))
    ELSE minLoop(board, depth, i + 1, alpha, beta, minScore)

minimax(board, depth, isMaximizing, alpha, beta) ==
    LET result == checkWinner(board)
    IN IF result # "null"
       THEN [score |-> terminalScore(result, depth), board |-> board]
       ELSE IF isMaximizing
       THEN maxLoop(board, depth, 0, alpha, beta, 0 - Infinity)
       ELSE minLoop(board, depth, 0, alpha, beta, Infinity)

RECURSIVE bestLoop(_, _, _, _)

\* the loop body of getBestMove taking a score equal to the best so far
bestStepLastMax(board, i, bestScore, bestMove, r) ==
    LET undone == [r.board EXCEPT ![i] = ""]
    IN IF r.score >= bestScore
       THEN bestLoop(undone, i + 1, r.score, i)
       ELSE bestLoop(undone, i + 1, bestScore, bestMove)

bestStep(board, i, bestScore, bestMove, r) ==
    LET undone == [r.board EXCEPT ![i] = ""]
    IN IF r.score > bestScore
       THEN bestLoop(undone, i + 1, r.score, i)
       ELSE bestLoop(undone, i + 1, bestScore, bestMove)

bestLoop(board, i, bestScore, bestMove) ==
    IF i >= 9 THEN [move |-> bestMove, board |-> board]
    ELSE IF board[i] = ""
    THEN bestStep(board, i, bestScore, bestMove,
                  minimax([board EXCEPT ![i] = aiPlayer], 0, FALSE, 0 - Infinity, Infinity))
    ELSE bestLoop(board, i + 1, bestScore, bestMove)

\* getBestMove with bestMove initialised to 0
getBestMoveFromZero(board) == bestLoop(board, 0, 0 - Infinity, 0)

\* the boards on which the AI opens: no mark, or one mark of the human player
openingBoards ==
    {EmptyBoard} \cup {[EmptyBoard EXCEPT ![i] = humanPlayer] : i \in Cells}

\* getBestMove on the opening boards, computed once
openingMoves ==
    [b \in openingBoards |-> bestLoop(b, 0, 0 - Infinity, 0 - 1)]

\* returns the chosen index (-1 if none) and the board as the call leaves it
getBestMove(board) ==
    IF board \in openingBoards THEN openingMoves[board]
    ELSE bestLoop(board, 0, 0 - Infinity, 0 - 1)

\* the emptyCells array, in index order
RECURSIVE emptyCellsFrom(_, _)
emptyCellsFrom(board, i) ==
    IF i >= 9 THEN << >>
    ELSE IF board[i] = "" THEN <<i>> \o emptyCellsFrom(board, i + 1)
    ELSE emptyCellsFrom(board, i + 1)

\* getRandomMove rounding up: emptyCells[ceil(random * length)]
getRandomMoveCeil(board) ==
    LET emptyCells == emptyCellsFrom(board, 0)
    IN IF Len(emptyCells) = 0 THEN {undefined}
       ELSE {IF k < Len(emptyCells) THEN emptyCells[k + 1] ELSE undefined :
                k \in 0..Len(emptyCells)}

\* the values getRandomMove can return: emptyCells[floor(random * length)]
\* with random in [0, 1); on an empty array the element read is undefined
getRandomMove(board) ==
    LET emptyCells == emptyCellsFrom(board, 0)
    IN IF Len(emptyCells) = 0 THEN {undefined}
       ELSE {emptyCells[k + 1] : k \in 0..(Len(emptyCells) - 1)}

\* one of the two scans of getMediumMove: the first empty cell where placing
\* mark makes checkWinner answer mark, with the board as the scan leaves it
RECURSIVE mediumScan(_, _, _)
mediumScan(board, mark, i) ==
    IF i >= 9 THEN [move |-> 0 - 1, board |-> board]
    ELSE IF board[i] = ""
    THEN LET placed == [board EXCEPT ![i] = mark]
         IN IF checkWinner(placed) = mark
            THEN [move |-> i, board |-> [placed EXCEPT ![i] = ""]]
            ELSE mediumScan([placed EXCEPT ![i] = ""], mark, i + 1)
    ELSE mediumScan(board, mark, i + 1)

\* getMediumMove looking for a block before looking for a win
getMediumMoveBlockFirst(board) ==
    LET block == mediumScan(board, humanPlayer, 0)
        win == mediumScan(block.board, aiPlayer, 0)
    IN IF block.move # 0 - 1 THEN {block}
       ELSE IF win.move # 0 - 1 THEN {win}
       ELSE {[move |-> m, board |-> win.board] : m \in getRandomMove(win.board)}

\* the set of possible outcomes [move, board] of getMediumMove
getMediumMove(board) ==
    LET win == mediumScan(board, aiPlayer, 0)
        block == mediumScan(win.board, humanPlayer, 0)
    IN IF win.move # 0 - 1 THEN {win}
       ELSE IF block.move # 0 - 1 THEN {block}
       ELSE {[move |-> m, board |-> block.board] : m \in getRandomMove(block.board)}

----------------------------------------------------------------------------
(* game.js *)

\* the switch of players with its two branches giving the same mark back
otherPlayerKeeps(p) == IF p = "X" THEN "X" ELSE "O"

otherPlayer(p) == IF p = "X" THEN "O" ELSE "X"

\* updateOldestMoveIndicator flagging only once the history is full
updateOldestMoveIndicatorWhenFull(moveHistory) ==
    IF Len(moveHistory) >= maxMoves THEN {moveHistory[1].index} ELSE {}

\* updateOldestMoveIndicator: the cells left carrying the 'oldest' class
updateOldestMoveIndicator(moveHistory) ==
    IF Len(moveHistory) >= 8 THEN {moveHistory[1].index} ELSE {}

\* makeMove evicting one move too early (length >= maxMoves - 1)
makeMoveEvictEarly(gs, index) ==
    LET evict == Len(gs.moveHistory) >= maxMoves - 1
        oldestMove == Head(gs.moveHistory)
        shifted == IF evict THEN Tail(gs.moveHistory) ELSE gs.moveHistory
        cleared == IF evict THEN [gs.board EXCEPT ![oldestMove.index] = ""]
                   ELSE gs.board
    IN [gs EXCEPT
          !.board = [cleared EXCEPT ![index] = gs.currentPlayer],
          !.moveHistory = Append(shifted, [index |-> index, player |-> gs.currentPlayer]),
          !.currentPlayer = otherPlayer(gs.currentPlayer)]

\* makeMove(index) on game state gs
makeMove(gs, index) ==
    LET evict == Len(gs.moveHistory) >= maxMoves
        oldestMove == Head(gs.moveHistory)
        shifted == IF evict THEN Tail(gs.moveHistory) ELSE gs.moveHistory
        cleared == IF evict THEN [gs.board EXCEPT ![oldestMove.index] = ""]
                   ELSE gs.board
    IN [gs EXCEPT
          !.board = [cleared EXCEPT ![index] = gs.currentPlayer],
          !.moveHistory = Append(shifted, [index |-> index, player |-> gs.currentPlayer]),
          !.currentPlayer = otherPlayer(gs.currentPlayer)]

handleWin(gs, winner, pattern) ==
    [gs EXCEPT !.gameActive = "false",
               !.winningLine = pattern,
               !.scores = [gs.scores EXCEPT ![winner] = @ + 1]]

\* checkGameStatus: what it returns and the game state it leaves
checkGameStatus(gs) ==
    LET k == patternLoop(gs.board, 1)
    IN IF k # 0
       THEN [ended |-> TRUE,
             gs |-> handleWin(gs, gs.board[winPatterns[k][1]], winPatterns[k])]
       ELSE [ended |-> FALSE, gs |-> gs]

\* resetGame leaving the winning line of the finished game in place
resetGameStateKeepLine(gs) ==
    [gs EXCEPT !.board = EmptyBoard,
               !.currentPlayer = "X",
               !.gameActive = "true",
               !.moveHistory = << >>]

resetGameState(gs) ==
    [gs EXCEPT !.board = EmptyBoard,
               !.currentPlayer = "X",
               !.gameActive = "true",
               !.winningLine = << >>,
               !.moveHistory = << >>]

WithinBounds(gs) == gs.scores.X <= MaxScore /\ gs.scores.O <= MaxScore

\* handleCellClick without its cell-not-empty test
clickExitNoCellTest(gs, index) ==
    IF gs.isProcessing THEN "busy"
    ELSE IF gs.gameMode = "ai" /\ gs.currentPlayer = "O" THEN "aiTurn"
    ELSE "applied"

\* which exit handleCellClick takes on a click on cell index
clickExit(gs, index) ==
    IF gs.isProcessing THEN "busy"
    ELSE IF CellAt(gs.board, index) # "" THEN "occupied"
    ELSE IF gs.gameMode = "ai" /\ gs.currentPlayer = "O" THEN "aiTurn"
    ELSE "applied"

ClickIndices == (0..MaxClickIndex) \cup {0 - 1, 9}

\* handleCellClick(index) past its early returns: the move, the status check
\* and the scheduling of the AI turn
clickApplied(gs, index) ==
    LET moved == makeMove(gs, index)
        status == checkGameStatus(moved)
        schedule == ~status.ended /\ status.gs.gameMode = "ai"
                    /\ status.gs.currentPlayer = "O"
    IN [gs |-> IF schedule THEN [status.gs EXCEPT !.isProcessing = TRUE]
               ELSE status.gs,
        scheduled |-> IF schedule THEN 1 ELSE 0,
        oldest |-> updateOldestMoveIndicator(moved.moveHistory)]

HandleCellClick(index) ==
    IF clickExit(gameState, index) # "applied"
    THEN UNCHANGED vars
    ELSE \E r \in {clickApplied(gameState, index)} :
            /\ WithinBounds(r.gs)
            /\ gameState' = r.gs
            /\ timers' = timers + r.scheduled
            /\ oldest' = r.oldest
            /\ movesMade' = movesMade + 1
            /\ UNCHANGED call

\* the callback clearing isProcessing only inside the branch that moves
aiTurnClearsWhenMoved(gs, oldestNow) ==
    LET best == getBestMove(gs.board)
        aiMove == best.move
        after == [gs EXCEPT !.board = best.board]
        applies == aiMove # 0 - 1 /\ CellAt(after.board, aiMove) = ""
        moved == makeMove(after, aiMove)
        status == checkGameStatus(moved)
    IN [gs |-> IF applies THEN [status.gs EXCEPT !.isProcessing = FALSE] ELSE after,
        applied |-> IF applies THEN 1 ELSE 0,
        oldest |-> IF applies THEN updateOldestMoveIndicator(moved.moveHistory)
                   ELSE oldestNow]

\* the body of the setTimeout callback of handleCellClick
aiTurn(gs, oldestNow) ==
    LET best == getBestMove(gs.board)
        aiMove == best.move
        after == [gs EXCEPT !.board = best.board]
        applies == aiMove # 0 - 1 /\ CellAt(after.board, aiMove) = ""
        moved == makeMove(after, aiMove)
        status == checkGameStatus(moved)
        done == IF applies THEN status.gs ELSE after
    IN [gs |-> [done EXCEPT !.isProcessing = FALSE],
        applied |-> IF applies THEN 1 ELSE 0,
        oldest |-> IF applies THEN updateOldestMoveIndicator(moved.moveHistory)
                   ELSE oldestNow]

AiCallback ==
    /\ timers > 0
    /\ \E r \in {aiTurn(gameState, oldest)} :
          /\ WithinBounds(r.gs)
          /\ gameState' = r.gs
          /\ oldest' = r.oldest
          /\ movesMade' = movesMade + r.applied
    /\ timers' = timers - 1
    /\ UNCHANGED call

ResetGame ==
    /\ gameState' = resetGameState(gameState)
    /\ oldest' = {}
    /\ movesMade' = 0
    /\ UNCHANGED <<timers, call>>

SetGameMode(mode) ==
    /\ gameState' = resetGameState([gameState EXCEPT !.gameMode = mode])
    /\ oldest' = {}
    /\ movesMade' = 0
    /\ UNCHANGED <<timers, call>>

Click == \E index \in ClickIndices : HandleCellClick(index)

ModeChange == \E mode \in {"ai", "2p"} : SetGameMode(mode)

NoCall == [fn |-> "none", before |-> EmptyBoard, move |-> 0 - 1, result |-> "null"]

Init ==
    /\ gameState = [board |-> EmptyBoard,
                    currentPlayer |-> "X",
                    gameMode |-> "ai",
                    scores |-> [X |-> 0, O |-> 0, draws |-> 0],
                    winningLine |-> << >>,
                    moveHistory |-> << >>,
                    isProcessing |-> FALSE,
                    gameActive |-> "undefined"]
    /\ timers = 0
    /\ oldest = {}
    /\ movesMade = 0
    /\ call = NoCall

Next ==
    \/ Click
    \/ AiCallback
    \/ ResetGame
    \/ ModeChange

Spec == Init /\ [][Next]_vars

\* a pending timer fires and the callback runs.  The first disjunct is the
\* callback that finds no move to make; it keeps the step enabled in every
\* state with a pending timer, also where AiCallback stops at MaxScore.
TimerFires ==
    /\ timers > 0
    /\ timers' = timers - 1
    /\ \/ /\ gameState' = [gameState EXCEPT !.isProcessing = FALSE]
          /\ UNCHANGED <<oldest, movesMade, call>>
       \/ AiCallback

\* a timer set by setTimeout fires: the callback is not postponed for ever
SpecFair == Init /\ [][Next]_vars /\ WF_vars(TimerFires)

----------------------------------------------------------------------------
(* Direct calls on the ai object and on the status check, one per behaviour, *)
(* on an arbitrary board over {Empty, X, O}                                  *)

Boards == [Cells -> {"", "X", "O"}]

InitSelector ==
    /\ gameState \in {[board |-> b,
                       currentPlayer |-> "X",
                       gameMode |-> "ai",
                       scores |-> [X |-> 0, O |-> 0, draws |-> 0],
                       winningLine |-> << >>,
                       moveHistory |-> << >>,
                       isProcessing |-> FALSE,
                       gameActive |-> "undefined"] : b \in Boards}
    /\ timers = 0
    /\ oldest = {}
    /\ movesMade = 0
    /\ call = NoCall

CallGetBestMove ==
    /\ call.fn = "none"
    /\ \E r \in {getBestMove(gameState.board)} :
          /\ gameState' = [gameState EXCEPT !.board = r.board]
          /\ call' = [fn |-> "getBestMove", before |-> gameState.board,
                      move |-> r.move, result |-> "null"]
    /\ UNCHANGED <<timers, oldest, movesMade>>

CallGetMediumMove ==
    /\ call.fn = "none"
    /\ \E r \in getMediumMove(gameState.board) :
          /\ gameState' = [gameState EXCEPT !.board = r.board]
          /\ call' = [fn |-> "getMediumMove", before |-> gameState.board,
                      move |-> r.move, result |-> "null"]
    /\ UNCHANGED <<timers, oldest, movesMade>>

CallGetRandomMove ==
    /\ call.fn = "none"
    /\ \E m \in getRandomMove(gameState.board) :
          call' = [fn |-> "getRandomMove", before |-> gameState.board,
                   move |-> m, result |-> "null"]
    /\ UNCHANGED <<gameState, timers, oldest, movesMade>>

CallCheckWinner ==
    /\ call.fn = "none"
    /\ call' = [fn |-> "checkWinner", before |-> gameState.board,
                move |-> 0 - 1, result |-> checkWinner(gameState.board)]
    /\ UNCHANGED <<gameState, timers, oldest, movesMade>>

CallCheckGameStatus ==
    /\ call.fn = "none"
    /\ \E r \in {checkGameStatus(gameState)} :
          /\ gameState' = r.gs
          /\ call' = [fn |-> "checkGameStatus", before |-> gameState.board,
                      move |-> 0 - 1,
                      result |-> IF r.ended THEN "true" ELSE "false"]
    /\ UNCHANGED <<timers, oldest, movesMade>>

NextSelector ==
    \/ CallGetBestMove
    \/ CallGetMediumMove
    \/ CallGetRandomMove
    \/ CallCheckWinner
    \/ CallCheckGameStatus

SpecSelector == InitSelector /\ [][NextSelector]_vars

----------------------------------------------------------------------------
(* The look-ahead of getBestMove: the hypothetical boards it and minimax put *)
(* on the array, each scored by a call of minimax with the full window       *)

marksOf(board, mark) == Cardinality({i \in Cells : board[i] = mark})

\* the boards handed to getBestMove: no line is filled and the opponent has
\* moved once more than the AI, or as often (the AI moving first)
LookAheadRoots ==
    {b \in Boards : /\ marksOf(b, humanPlayer) - marksOf(b, aiPlayer) \in {0, 1}
                    /\ marksOf(b, "") <= MaxLookAhead
                    /\ patternLoop(b, 1) = 0}

InitLookAhead ==
    /\ gameState \in {[board |-> b,
                       currentPlayer |-> "O",
                       gameMode |-> "ai",
                       scores |-> [X |-> 0, O |-> 0, draws |-> 0],
                       winningLine |-> << >>,
                       moveHistory |-> << >>,
                       isProcessing |-> TRUE,
                       gameActive |-> "undefined"] : b \in LookAheadRoots}
    /\ timers = 0
    /\ oldest = {}
    /\ movesMade = 0
    /\ call = NoCall

\* the record of a call minimax(board, depth, isMaximizing, -Infinity, Infinity)
minimaxCall(board, depth, isMaximizing) ==
    [fn |-> "minimax", before |-> board, move |-> 0 - 1, result |-> "null",
     depth |-> depth, isMaximizing |-> isMaximizing,
     score |-> minimax(board, depth, isMaximizing, 0 - Infinity, Infinity).score]

\* getBestMove tries cell i: it writes the AI's mark and scores the board
TryCell(i) ==
    /\ call.fn = "none"
    /\ gameState.board[i] = ""
    /\ \E b \in {[gameState.board EXCEPT ![i] = aiPlayer]} :
          /\ gameState' = [gameState EXCEPT !.board = b]
          /\ call' = minimaxCall(b, 0, FALSE)
    /\ UNCHANGED <<timers, oldest, movesMade>>

\* minimax, on a board that is not terminal, goes one level down: it writes
\* the mark of the side to move into cell i and scores the board
Descend(i) ==
    /\ call.fn = "minimax"
    /\ checkWinner(gameState.board) = "null"
    /\ gameState.board[i] = ""
    /\ \E b \in {[gameState.board EXCEPT
                      ![i] = IF call.isMaximizing THEN aiPlayer ELSE humanPlayer]} :
          /\ gameState' = [gameState EXCEPT !.board = b]
          /\ call' = minimaxCall(b, call.depth + 1, ~call.isMaximizing)
    /\ UNCHANGED <<timers, oldest, movesMade>>

NextLookAhead ==
    \/ \E i \in Cells : TryCell(i)
    \/ \E i \in Cells : Descend(i)
    \/ CallGetBestMove

SpecLookAhead == InitLookAhead /\ [][NextLookAhead]_vars

----------------------------------------------------------------------------
(* Properties of the game *)

occupiedCells(board) == {i \in Cells : board[i] # ""}

boardFull(board) == \A i \in Cells : board[i] # ""

\* some move can be applied now: a click that passes the three tests of
\* handleCellClick, or a pending AI callback that places a mark
CanApplyMove ==
    \/ \E index \in Cells : clickExit(gameState, index) = "applied"
    \/ timers > 0 /\ aiTurn(gameState, oldest).applied = 1

\* C1: the number of non-empty cells equals the length of the move history,
\* which equals min(moves applied since the last reset, 9) and is at most 9.
C1_OccupiedEqualsHistory ==
    /\ Cardinality(occupiedCells(gameState.board)) = Len(gameState.moveHistory)
    /\ Len(gameState.moveHistory) = Min(movesMade, 9)
    /\ Len(gameState.moveHistory) <= 9

C1_Witness ==
    /\ movesMade = 9
    /\ Len(gameState.moveHistory) = 9
    /\ boardFull(gameState.board)

\* C2: once nine moves have been applied since the last reset a tenth move can
\* be applied, and applying it empties the cell of the first move, keeps the
\* history at length 9 and makes the former second record the head.
C2_TenthMoveEvicts ==
    /\ [](movesMade = 9 => CanApplyMove)
    /\ [][(movesMade = 9 /\ movesMade' = 10) =>
            /\ gameState'.board[gameState.moveHistory[1].index] = ""
            /\ Len(gameState'.moveHistory) = 9
            /\ gameState'.moveHistory[1] = gameState.moveHistory[2]]_vars

\* C3: whenever all nine cells are occupied a further move can be applied
\* without a reset.
C3_FullBoardCanMove ==
    boardFull(gameState.board) => CanApplyMove

\* C4: in AI mode no state is reached in which X fills a winning line.
C4_HumanNeverFillsLine ==
    gameState.gameMode = "ai" =>
        \A k \in 1..Len(winPatterns) :
            ~(patternFilled(gameState.board, k)
              /\ gameState.board[winPatterns[k][1]] = humanPlayer)

\* C5: a click on a cell that is not Empty, or on an index off the board,
\* leaves the board, the move history and the current player unchanged.
C5_OccupiedClickRejected ==
    [][\/ /\ gameState'.board = gameState.board
          /\ gameState'.moveHistory = gameState.moveHistory
          /\ gameState'.currentPlayer = gameState.currentPlayer
          /\ movesMade' = movesMade
       \/ ~\E index \in ClickIndices :
              CellAt(gameState.board, index) # "" /\ HandleCellClick(index)]_vars

\* a state in which a click on a marked cell arrives at the cell-not-empty test
C5_Witness ==
    \E index \in Cells :
        /\ gameState.board[index] # ""
        /\ clickExit(gameState, index) = "occupied"
        /\ Len(gameState.moveHistory) >= 2

\* what resetGame leaves in gs1 when it started from gs0 with game mode `mode`
resetEffect(gs0, gs1, mode) ==
    /\ gs1.board = EmptyBoard
    /\ gs1.moveHistory = << >>
    /\ gs1.currentPlayer = "X"
    /\ gs1.winningLine = << >>
    /\ gs1.scores = gs0.scores
    /\ gs1.gameMode = mode

\* C11: from every reachable state resetGame yields nine Empty cells, an empty
\* history, current player X and no winning line, and keeps scores and game
\* mode; setGameMode(mode) sets the mode and otherwise does what resetGame does.
C11_ResetClears ==
    [][/\ (movesMade' = 0 /\ ResetGame) =>
             resetEffect(gameState, gameState', gameState.gameMode)
       /\ \A mode \in {"ai", "2p"} :
             (movesMade' = 0 /\ SetGameMode(mode)) =>
                /\ resetEffect(gameState, gameState', mode)
                /\ gameState' = [resetGameState(gameState) EXCEPT !.gameMode = mode]]_vars

\* a new game begun in the other mode after a counted win
C11_Witness ==
    /\ gameState.board = EmptyBoard
    /\ gameState.moveHistory = << >>
    /\ gameState.gameActive = "true"
    /\ gameState.gameMode = "2p"
    /\ gameState.scores.O = 1
    /\ movesMade = 0

\* C13: once a winning line has been detected no further mark is placed, by a
\* click or by the AI callback, until the game is reset.
C13_NoMoveAfterWin ==
    [][gameState.winningLine # << >> => movesMade' <= movesMade]_vars

\* C14: in every reachable state at most one of the 8 winning lines is fully
\* marked with a single mark.
C14_AtMostOneLine ==
    Cardinality({k \in 1..Len(winPatterns) :
                    patternFilled(gameState.board, k)}) <= 1

\* C17: the cell flagged 'oldest' is the cell of the head of the move history
\* exactly when the history holds at least 8 records; below 8 no cell is
\* flagged; never more than one cell is flagged.
C17_OldestFlag ==
    /\ Len(gameState.moveHistory) >= 8 =>
          oldest = {gameState.moveHistory[1].index}
    /\ Len(gameState.moveHistory) < 8 => oldest = {}
    /\ Cardinality(oldest) <= 1

C17_Witness ==
    /\ Len(gameState.moveHistory) = 8
    /\ oldest = {gameState.moveHistory[1].index}
    /\ gameState.board[gameState.moveHistory[1].index] = "X"

\* C18: every mark the delayed AI callback places is the AI's mark and is
\* placed while the game mode is 'ai', whatever clicks, resets and mode
\* changes came between its scheduling and its run.
C18_CallbackMovesOnlyAsAI ==
    [][(timers' < timers /\ movesMade' = movesMade + 1) =>
          /\ gameState.gameMode = "ai"
          /\ gameState'.moveHistory[Len(gameState'.moveHistory)].player = aiPlayer]_vars

\* C19: the move history alternates marks starting with X, the current player
\* is X exactly when its length is even, its cell indices are pairwise
\* distinct and each recorded cell holds the recorded mark.
C19_HistoryAlternates ==
    LET h == gameState.moveHistory
    IN /\ \A k \in 1..Len(h) : h[k].player = IF k % 2 = 1 THEN "X" ELSE "O"
       /\ gameState.currentPlayer = "X" <=> Len(h) % 2 = 0
       /\ \A j, k \in 1..Len(h) : j # k => h[j].index # h[k].index
       /\ \A k \in 1..Len(h) : gameState.board[h[k].index] = h[k].player

C19_Witness ==
    /\ gameState.gameMode = "2p"
    /\ Len(gameState.moveHistory) = 5
    /\ gameState.moveHistory[4].player = "O"
    /\ gameState.moveHistory[5].player = "X"
    /\ gameState.currentPlayer = "O"

\* C20: between two consecutive resets the sum of the X and O scores grows by
\* at most 1 (a winning line recorded since the last reset means the win of
\* this game has been counted), and the draws counter never changes.
C20_WinCountedOnce ==
    [][/\ gameState'.scores.X + gameState'.scores.O
            <= gameState.scores.X + gameState.scores.O + 1
       /\ gameState.winningLine # << >> =>
             gameState'.scores.X + gameState'.scores.O
                <= gameState.scores.X + gameState.scores.O
       /\ gameState'.scores.draws = gameState.scores.draws]_vars

\* C21: at most one AI callback is pending, isProcessing is true exactly while
\* one is pending, while it is pending only the callback itself places a mark,
\* and every scheduled callback eventually runs and leaves isProcessing false.
C21_OneCallbackAtATime ==
    /\ [](/\ timers <= 1
          /\ gameState.isProcessing <=> timers > 0)
    /\ [][(timers > 0 /\ movesMade' > movesMade) => timers' < timers]_vars
    /\ timers > 0 ~> (timers = 0 /\ ~gameState.isProcessing)

\* the callback has run, placed the AI's answer and cleared isProcessing
C21_Witness ==
    /\ timers = 0
    /\ ~gameState.isProcessing
    /\ gameState.gameMode = "ai"
    /\ Len(gameState.moveHistory) = 2
    /\ gameState.moveHistory[2].player = aiPlayer
    /\ gameState.currentPlayer = humanPlayer

----------------------------------------------------------------------------
(* Properties of the move selection and of the outcome check *)

emptyCellsOf(board) == {i \in Cells : board[i] = ""}

\* pattern k holds mark in all three cells
lineHeldBy(board, k, mark) ==
    \A j \in 1..3 : board[winPatterns[k][j]] = mark

filledLines(board) ==
    {k \in 1..Len(winPatterns) : \E m \in {"X", "O"} : lineHeldBy(board, k, m)}

\* cell i is Empty and writing mark into it makes some line hold mark
completesLine(board, i, mark) ==
    /\ board[i] = ""
    /\ \E k \in 1..Len(winPatterns) :
          lineHeldBy([board EXCEPT ![i] = mark], k, mark)

lowest(S) == CHOOSE i \in S : \A j \in S : i <= j

\* C6: when getBestMove or getMediumMove returns, the board is cell for cell
\* the board that was passed in.
C6_BoardRestored ==
    call.fn \in {"getBestMove", "getMediumMove"} => gameState.board = call.before

C6_Witness ==
    /\ call.fn = "getBestMove"
    /\ call.before = EmptyBoard
    /\ call.move = 0
    /\ gameState.board = EmptyBoard

winCells(board) == {i \in Cells : completesLine(board, i, aiPlayer)}

blockCells(board) == {i \in Cells : completesLine(board, i, humanPlayer)}

\* what C7 requires of the index m returned on board
mediumMoveAsClaimed(board, m) ==
    IF winCells(board) # {} THEN m = lowest(winCells(board))
    ELSE IF blockCells(board) # {} THEN m = lowest(blockCells(board))
    ELSE m \in emptyCellsOf(board)

C7_Example ==
    [i \in Cells |-> IF i \in {0, 1} THEN "X" ELSE IF i \in {3, 4} THEN "O" ELSE ""]

\* C7 as stated: on every board with an Empty cell getMediumMove returns the
\* lowest cell completing a line for the AI, else the lowest cell completing a
\* line for the opponent, else some Empty cell.
C7_MediumMoveOnEveryBoard ==
    (call.fn = "getMediumMove" /\ emptyCellsOf(call.before) # {}) =>
        mediumMoveAsClaimed(call.before, call.move)

\* C7 amended: the same on every board with an Empty cell on which no line is
\* already filled; on [X,X,_,O,O,_,_,_,_] the result is 5.
C7_MediumMoveOnUndecidedBoard ==
    (/\ call.fn = "getMediumMove"
     /\ emptyCellsOf(call.before) # {}
     /\ filledLines(call.before) = {}) =>
        /\ mediumMoveAsClaimed(call.before, call.move)
        /\ call.before = C7_Example => call.move = 5

C7_Witness ==
    /\ call.fn = "getMediumMove"
    /\ call.before = C7_Example
    /\ call.move = 5

\* the outcome C8 requires on board: the first filled line in the order of
\* winPatterns with the mark it holds, else Draw on a full board, else
\* InProgress
claimedOutcome(board) ==
    IF filledLines(board) # {}
    THEN [kind |-> "win",
          mark |-> board[winPatterns[lowest(filledLines(board))][1]],
          line |-> winPatterns[lowest(filledLines(board))]]
    ELSE IF emptyCellsOf(board) = {}
    THEN [kind |-> "draw", mark |-> "", line |-> << >>]
    ELSE [kind |-> "inprogress", mark |-> "", line |-> << >>]

\* what checkGameStatus reports on game state gs: the winner whose score it
\* counts and the line it records, a draw if it counts one, else nothing
gameOutcome(gs) ==
    LET r == checkGameStatus(gs)
    IN IF r.ended
       THEN [kind |-> "win",
             mark |-> CHOOSE m \in {"X", "O"} : r.gs.scores[m] = gs.scores[m] + 1,
             line |-> r.gs.winningLine]
       ELSE IF r.gs.scores.draws = gs.scores.draws + 1
       THEN [kind |-> "draw", mark |-> "", line |-> << >>]
       ELSE [kind |-> "inprogress", mark |-> "", line |-> << >>]

\* the value checkWinner returns for an outcome
winnerValue(out) ==
    IF out.kind = "win" THEN out.mark
    ELSE IF out.kind = "draw" THEN "draw"
    ELSE "null"

beforeState == [gameState EXCEPT !.board = call.before,
                                 !.scores = [X |-> 0, O |-> 0, draws |-> 0],
                                 !.winningLine = << >>,
                                 !.gameActive = "undefined"]

\* changing any one cell of the line reported on board changes the report
reportedWinBreaks(gs) ==
    LET out == gameOutcome(gs)
    IN out.kind = "win" =>
          \A j \in 1..3 : \A v \in {"", "X", "O"} \ {out.mark} :
              gameOutcome([gs EXCEPT !.board[out.line[j]] = v]) # out

\* C8 as stated: both outcome checks report the win of the first filled line,
\* Draw on a full board without a filled line and InProgress otherwise, and
\* changing a cell of the reported line changes the report.
C8_OutcomeOnEveryBoard ==
    /\ call.fn = "checkWinner" =>
          call.result = winnerValue(claimedOutcome(call.before))
    /\ call.fn = "checkGameStatus" =>
          /\ gameOutcome(beforeState) = claimedOutcome(call.before)
          /\ reportedWinBreaks(beforeState)

\* C8 amended: checkWinner reports as stated; checkGameStatus reports the same
\* wins, with the line, but on a full board without a filled line it reports
\* nothing and leaves the game state as it was.
C8_OutcomeDrawOnlyInLookAhead ==
    /\ call.fn = "checkWinner" =>
          call.result = winnerValue(claimedOutcome(call.before))
    /\ call.fn = "checkGameStatus" =>
          /\ claimedOutcome(call.before).kind = "win" =>
                /\ call.result = "true"
                /\ gameState.winningLine = claimedOutcome(call.before).line
                /\ gameState.scores[claimedOutcome(call.before).mark] = 1
                /\ gameOutcome(beforeState) = claimedOutcome(call.before)
          /\ claimedOutcome(call.before).kind # "win" =>
                /\ call.result = "false"
                /\ gameState = beforeState
          /\ reportedWinBreaks(beforeState)

C8_Witness ==
    /\ call.fn = "checkGameStatus"
    /\ call.result = "true"
    /\ Cardinality(filledLines(call.before)) >= 2
    /\ gameState.winningLine = winPatterns[lowest(filledLines(call.before))]

\* C9: on a board with an Empty cell each strategy returns the index of an
\* Empty cell, and getRandomMove can return every Empty cell.
C9_MoveIsEmptyCell ==
    /\ (call.fn \in {"getBestMove", "getMediumMove", "getRandomMove"}
        /\ emptyCellsOf(call.before) # {}) =>
          /\ call.move \in Cells
          /\ call.before[call.move] = ""
    /\ call.fn = "none" =>
          \A e \in emptyCellsOf(gameState.board) : e \in getRandomMove(gameState.board)

C9_Witness ==
    /\ call.fn = "getRandomMove"
    /\ Cardinality(emptyCellsOf(call.before)) >= 2
    /\ call.move = lowest(emptyCellsOf(call.before) \ {lowest(emptyCellsOf(call.before))})

\* C10: on a board without an Empty cell getBestMove gives -1 and
\* getRandomMove and getMediumMove give no index; the AI callback then applies
\* no move and leaves the board as it was.
C10_FullBoardNoMove ==
    /\ [](boardFull(gameState.board) =>
            /\ getBestMove(gameState.board).move = 0 - 1
            /\ getRandomMove(gameState.board) \cap Cells = {}
            /\ \A r \in getMediumMove(gameState.board) : r.move \notin Cells)
    /\ [][(boardFull(gameState.board) /\ AiCallback) =>
            /\ gameState'.board = gameState.board
            /\ gameState'.moveHistory = gameState.moveHistory
            /\ movesMade' = movesMade]_vars

C10_Witness ==
    /\ boardFull(gameState.board)
    /\ gameState.gameMode = "ai"
    /\ gameState.currentPlayer = aiPlayer
    /\ filledLines(gameState.board) = {}
    /\ timers = 0
    /\ ~gameState.isProcessing

\* C12: asked to move first on the empty board, with AI = O, getBestMove
\* returns a corner or the centre, and of these it returns index 0.
C12_EmptyBoardOpening ==
    (call.fn = "getBestMove" /\ call.before = EmptyBoard /\ aiPlayer = "O") =>
        /\ call.move \in {0, 2, 4, 6, 8}
        /\ call.move = 0

C12_Witness ==
    /\ call.fn = "getBestMove"
    /\ emptyCellsOf(call.before) = Cells
    /\ call.move \in {0, 2, 4, 6, 8}

\* C16: on a board without a filled line where some Empty cell completes a
\* line for the AI, getBestMove returns the lowest such cell.
C16_TakesImmediateWin ==
    (/\ call.fn = "getBestMove"
     /\ filledLines(call.before) = {}
     /\ winCells(call.before) # {}) =>
        call.move = lowest(winCells(call.before))

\* the winning cell is returned although a lower Empty cell also leads to a win
C16_Witness ==
    /\ call.fn = "getBestMove"
    /\ filledLines(call.before) = {}
    /\ winCells(call.before) # {}
    /\ call.move = lowest(winCells(call.before))
    /\ lowest(emptyCellsOf(call.before)) < call.move
    /\ Cardinality(winCells(call.before)) >= 2

\* plain minimax, without a window: the terminal score of the claim on a decided
\* or full board, else the greatest (AI to move) or least (opponent to move)
\* of the scores of all boards one mark further, none left out
RECURSIVE plainMinimax(_, _, _)
plainMinimax(board, depth, isMaximizing) ==
    LET w == claimedOutcome(board)
        mark == IF isMaximizing THEN aiPlayer ELSE humanPlayer
        below == {plainMinimax([board EXCEPT ![i] = mark], depth + 1, ~isMaximizing) :
                     i \in emptyCellsOf(board)}
    IN IF w.kind = "win" /\ w.mark = aiPlayer THEN 10 - depth
       ELSE IF w.kind = "win" THEN depth - 10
       ELSE IF w.kind = "draw" THEN 0
       ELSE IF isMaximizing THEN CHOOSE s \in below : \A t \in below : s >= t
       ELSE CHOOSE s \in below : \A t \in below : s <= t

\* the plain score of the Empty cell i of board for the AI
plainCellScore(board, i) ==
    plainMinimax([board EXCEPT ![i] = aiPlayer], 0, FALSE)

\* the Empty cells of board whose plain score is the greatest of all Empty cells
bestCells(board) ==
    LET sc == [i \in emptyCellsOf(board) |-> plainCellScore(board, i)]
    IN {i \in emptyCellsOf(board) : \A j \in emptyCellsOf(board) : sc[i] >= sc[j]}

\* C15: on every look-ahead board, minimax with alpha-beta pruning and the full
\* window returns the score of plain minimax without pruning, and getBestMove
\* returns the lowest Empty cell whose plain score is the greatest.
C15_PruningKeepsScore ==
    /\ call.fn = "minimax" =>
          call.score = plainMinimax(call.before, call.depth, call.isMaximizing)
    /\ (call.fn = "getBestMove" /\ emptyCellsOf(call.before) # {}) =>
          call.move = lowest(bestCells(call.before))

\* an undecided board with three Empty cells, the opponent to move, on which
\* the cells differ in score and the least score is a loss for the AI
C15_Witness ==
    /\ call.fn = "minimax"
    /\ call.depth = 0
    /\ ~call.isMaximizing
    /\ Cardinality(emptyCellsOf(call.before)) = 3
    /\ checkWinner(call.before) = "null"
    /\ call.score = 0 - 9
    /\ \E i \in emptyCellsOf(call.before) :
          plainMinimax([call.before EXCEPT ![i] = humanPlayer], 1, TRUE) > 0

TypeOK ==
    /\ gameState.board \in [Cells -> {"", "X", "O"}]
    /\ gameState.currentPlayer \in {"X", "O"}
    /\ timers \in 0..1

====
